---- MODULE Spec2Model ----
(***************************************************************************)
(* The asynchronous RDAP resolution client of InternetNamesMCP             *)
(* (rdap_client.py): HostRateLimiter, RateLimiterRegistry and              *)
(* AsyncRDAPClient, with the bootstrap lookup of rdap_bootstrap.py.        *)
(*                                                                         *)
(* Time.  One tick is 0.5 s.  The reading of time.monotonic() has an       *)
(* arbitrary origin, so the model takes the current instant as the origin: *)
(* a stored timestamp x is kept as its distance to now.                    *)
(*   retryAfterUntil[h] = max(_retry_after_until - now, 0)  (time left)    *)
(*   lastRequestTime[h] = min(now - _last_request_time, min_delay)  (age)  *)
(*   uptime             = min(now - 0.0, min_delay), the age of the 0.0 a   *)
(*                        new limiter has as its _last_request_time         *)
(*   timer[t]           = time left of the sleep task t is in              *)
(* `now < _retry_after_until` is retryAfterUntil[h] > 0 and `elapsed` is   *)
(* lastRequestTime[h]; ages beyond min_delay and deadlines in the past all *)
(* behave alike in the code, so nothing is lost.  Tick lets one tick pass. *)
(* asyncio.sleep(d) returns at d or later: a sleeper may wake once its     *)
(* timer is 0, and time may go on before it does.                          *)
(*                                                                         *)
(* Scheduling.  The tasks of a batch run on one event loop; code between   *)
(* two awaits is one action.                                               *)
(***************************************************************************)
EXTENDS Integers, Sequences, FiniteSets, TLC

\* ---------------------------------------------------------------- bounds
MaxDomains == 2          \* longest input list of a batch
MaxRetryAfter == 2       \* largest Retry-After a registry sends, in ticks
MaxBackoffRuns == 1      \* a registry sends a 429 without Retry-After only
                         \* while the host's consecutive count is below this

MaxRetries == 2          \* largest AsyncRDAPClient(max_retries=...) of a batch
SoloRetries == 6         \* max_retries of a check that runs alone
MaxCalls == 2            \* calls of check_domains_async in a row
MaxSeconds == 20         \* largest Retry-After given to _parse_retry_after alone

\* ------------------------------------------------------ program constants
MaxConcurrent == 2       \* AsyncRDAPClient(max_concurrent_per_host=2)
MinDelay == 1            \* min_delay_per_host=0.5 s, in ticks
BackoffCap == 32         \* min(2**n, 32) seconds
TicksPerSecond == 2      \* 0.5 * (attempt + 1) seconds is attempt + 1 ticks
MessageLimit == 100      \* str(last_error)[:100]

\* Python's None: the empty sequence where the value is a string, a record
\* or Some(number); the string "None" in the fields that hold a tag.
None == << >>
NoneTag == "None"
Some(x) == << x >>
Value(o) == o[1]

Min(a, b) == IF a < b THEN a ELSE b
Max(a, b) == IF a > b THEN a ELSE b

\* ---------------------------------------------------------------- strings
\* A string is a sequence of one-character strings.
Lower(c) ==
    CASE c = "C" -> "c"
      [] c = "N" -> "n"
      [] c = "O" -> "o"
      [] c = "V" -> "v"
      [] c = "P" -> "p"
      [] OTHER -> c

LowerStr(s) == [i \in DOMAIN s |-> Lower(s[i])]

HasDot(s) == \E i \in DOMAIN s : s[i] = "."

\* domain.rsplit(".", 1)[-1]: what follows the last "."
AfterLastDot(s) ==
    LET i == CHOOSE k \in DOMAIN s :
                 s[k] = "." /\ \A j \in DOMAIN s : j > k => s[j] # "."
    IN SubSeq(s, i + 1, Len(s))

ExtractTLD(domain) ==
    IF HasDot(domain) THEN LowerStr(AfterLastDot(domain)) ELSE << >>

\* The domains a batch is drawn from: two TLDs of one registry host, a TLD
\* of another host written in capitals, a TLD the bootstrap does not list,
\* and a name without a dot.
Domains ==
    { <<"a", ".", "c">>, <<"b", ".", "n">>, <<"a", ".", "O">>,
      <<"a", ".", "z">>, <<"x">> }

\* ------------------------------------------------------- bootstrap cache
\* The cached "services" mapping (lower-case TLD -> list of base URLs); the
\* cache is present and unexpired for the length of a batch.
Url(netloc, path) == [netloc |-> netloc, path |-> path]

Services ==
    ( <<"c">> :> << Url(<<"v">>, "/com/v1/") >> ) @@
    ( <<"n">> :> << Url(<<"V">>, "/net/v1/") >> ) @@
    ( <<"o">> :> << Url(<<"p">>, "/rdap/"), Url(<<"v">>, "/alt/") >> )

\* Mutant: a TLD without an entry is sent to a default server.
get_rdap_server_with_default(tld) ==
    LET tld_lower == LowerStr(tld)
    IN IF tld_lower \in DOMAIN Services /\ Len(Services[tld_lower]) > 0
       THEN Services[tld_lower][1]
       ELSE Url(<<"p">>, "/rdap/")

get_rdap_server(tld) ==
    LET tld_lower == LowerStr(tld)
    IN IF tld_lower \in DOMAIN Services /\ Len(Services[tld_lower]) > 0
       THEN Services[tld_lower][1]
       ELSE None

\* urlparse(url).netloc.lower()
HostOf(url) == LowerStr(url.netloc)

\* ---------------------------------------------- the bootstrap cache file
\* Time in the cache file.  One unit is 8 hours; "expires" is kept as the
\* time left to it, max(expires - time.time(), 0): `time.time() < expires`
\* is expires > 0, and time.time() + n is n.
DEFAULT_CACHE_TTL == 3   \* 86400 s

\* The file at BOOTSTRAP_CACHE_PATH: absent, not readable as JSON, or the
\* cache written by _save_cache.
MissingFile == [state |-> "missing"]
CorruptFile == [state |-> "corrupt"]
CacheFile(services, validators, expires) ==
    [state |-> "valid", services |-> services, validators |-> validators,
     expires |-> expires]

\* _load_cache: the cache, or None if the file is absent or unreadable
_load_cache(f) == IF f.state = "valid" THEN f ELSE None

\* How _save_cache may end: the file is written; open() fails and the file
\* stays as it was; or the write fails after open(path, "w") has emptied it.
WriteOutcomes == { "written", "refused", "torn" }

_save_cache(f, cache, w) ==
    IF w = "written" THEN cache
    ELSE IF w = "refused" THEN f
    ELSE CorruptFile

\* A Cache-Control header is a list of directives; a max-age directive has
\* Some(n) when int() reads its value and None when it does not.
MaxAgeDirective(v) == [name |-> "max-age", value |-> v]
OtherDirective == [name |-> "public"]

RECURSIVE _parse_max_age(_)
_parse_max_age(cache_control) ==
    IF cache_control = << >> THEN None
    ELSE LET directive == Head(cache_control)
         IN IF directive.name = "max-age" /\ directive.value # None
            THEN directive.value
            ELSE _parse_max_age(Tail(cache_control))

\* Mutant: a max-age of 0 is taken as it is.
ExpiryAfterTakingZero(max_age) ==
    IF max_age # None THEN Value(max_age) ELSE DEFAULT_CACHE_TTL

\* time.time() + (max_age if max_age else DEFAULT_CACHE_TTL), as time left
ExpiryAfter(max_age) ==
    IF max_age # None /\ Value(max_age) # 0 THEN Value(max_age)
    ELSE DEFAULT_CACHE_TTL

\* A bootstrap document is the list under "services"; an entry is a list
\* whose first two members are the TLDs and the URLs.
RECURSIVE AssignTlds(_, _, _)
AssignTlds(services, tlds, urls) ==
    IF tlds = << >> THEN services
    ELSE LET tld_lower == LowerStr(Head(tlds))
             others == [k \in DOMAIN services \ { tld_lower } |-> services[k]]
         IN AssignTlds((tld_lower :> urls) @@ others, Tail(tlds), urls)

RECURSIVE ParseEntries(_, _)
ParseEntries(services, entries) ==
    IF entries = << >> THEN services
    ELSE LET entry == Head(entries)
         IN ParseEntries(IF Len(entry) >= 2
                         THEN AssignTlds(services, entry[1], entry[2])
                         ELSE services,
                         Tail(entries))

_parse_bootstrap_services(data) == ParseEntries(<< >>, data)

\* What the IANA server may answer to the conditional GET.  The bodies: the
\* full document (a TLD in capitals, a TLD named twice, a TLD with an empty
\* URL list, an entry too short), one without the TLD "o", one with no
\* entry, text that is no JSON, and JSON that is no object.
FullDocument ==
    << << << <<"c">>, <<"N">> >>, << Url(<<"v">>, "/old/") >> >>,
       << << <<"o">> >>, << Url(<<"p">>, "/rdap/"), Url(<<"v">>, "/alt/") >> >>,
       << << <<"C">> >>, << Url(<<"v">>, "/com/v1/") >> >>,
       << << <<"e">> >>, << >> >>,
       << << <<"q">> >> >> >>
SmallDocument == << << << <<"c">> >>, << Url(<<"v">>, "/com/v1/") >> >> >>
EmptyDocument == << >>

JsonBody(doc, validators) == [kind |-> "object", services |-> doc, validators |-> validators]
NotJson == [kind |-> "not_json", validators |-> ""]
NotObject == [kind |-> "not_object", validators |-> ""]

CacheControls ==
    { << >>, << MaxAgeDirective(Some(0)) >>, << MaxAgeDirective(Some(1)) >>,
      << MaxAgeDirective(Some(DEFAULT_CACHE_TTL + 1)) >>,
      << OtherDirective, MaxAgeDirective(None), MaxAgeDirective(Some(2)) >> }

NetworkFailure == [kind |-> "network"]
BootResponse(status, body, cache_control) ==
    [kind |-> "response", status_code |-> status, body |-> body,
     cache_control |-> cache_control]

BootResponses ==
    { NetworkFailure, BootResponse(500, NotJson, << >>) }
    \cup { BootResponse(304, NotJson, cc) : cc \in CacheControls }
    \cup { BootResponse(200, JsonBody(FullDocument, "full"), cc) : cc \in CacheControls }
    \cup { BootResponse(200, JsonBody(SmallDocument, "small"), cc) : cc \in CacheControls }
    \cup { BootResponse(200, b, << >>) : b \in { JsonBody(EmptyDocument, ""), NotJson, NotObject } }

\* The responses after which refresh_bootstrap may call _save_cache.
Saves(response) ==
    /\ response.kind = "response"
    /\ \/ response.status_code = 304
       \/ response.status_code = 200 /\ response.body.kind = "object"

\* What a call of refresh_bootstrap comes to: the file it leaves, what it
\* returns, the requests it made, and whether it ended by raising.
Outcome(f, result, fetches, raised) ==
    [file |-> f, result |-> result, fetches |-> fetches, raised |-> raised]

\* Mutant: an unexpired cache is refreshed all the same.
StillValidNever(cache, force) == FALSE

\* `if not force and cache: ... if time.time() < expires: return False`
StillValid(cache, force) == ~force /\ cache # None /\ cache.expires > 0

\* Mutant: a 304 rewrites the mapping as an empty one.
NotModifiedClearing(f, cache, response, w) ==
    IF cache # None
    THEN Outcome(_save_cache(f, CacheFile(<< >>, cache.validators,
                     ExpiryAfter(_parse_max_age(response.cache_control))), w),
                 FALSE, 1, FALSE)
    ELSE Outcome(f, FALSE, 1, FALSE)

\* refresh_bootstrap on status 304
NotModified(f, cache, response, w) ==
    IF cache # None
    THEN Outcome(_save_cache(f, [cache EXCEPT !.expires =
                     ExpiryAfter(_parse_max_age(response.cache_control))], w),
                 FALSE, 1, FALSE)
    ELSE Outcome(f, FALSE, 1, FALSE)

\* Mutant: a document without entries is written like any other.
NewDocumentSavingEmpty(f, response, w) ==
    IF response.body.kind = "not_json" THEN Outcome(f, FALSE, 1, FALSE)
    ELSE IF response.body.kind = "not_object"
         THEN Outcome(f, FALSE, 1, TRUE)
    ELSE LET services == _parse_bootstrap_services(response.body.services)
         IN Outcome(_save_cache(f, CacheFile(services, response.body.validators,
                        ExpiryAfter(_parse_max_age(response.cache_control))), w),
                    DOMAIN services # { }, 1, FALSE)

\* refresh_bootstrap on status 200
NewDocument(f, response, w) ==
    IF response.body.kind = "not_json" THEN Outcome(f, FALSE, 1, FALSE)
    ELSE IF response.body.kind = "not_object"
         THEN Outcome(f, FALSE, 1, TRUE)    \* data.get raises AttributeError
    ELSE LET services == _parse_bootstrap_services(response.body.services)
         IN IF DOMAIN services = { } THEN Outcome(f, FALSE, 1, FALSE)
            ELSE Outcome(_save_cache(f, CacheFile(services, response.body.validators,
                             ExpiryAfter(_parse_max_age(response.cache_control))), w),
                         TRUE, 1, FALSE)

\* refresh_bootstrap(force) on file f, the server answering with response
\* and the write, if one is made, ending as w.
RefreshOutcome(f, force, response, w) ==
    LET cache == _load_cache(f)
    IN IF StillValid(cache, force) THEN Outcome(f, FALSE, 0, FALSE)
       ELSE IF response.kind = "network" THEN Outcome(f, FALSE, 1, FALSE)
       ELSE IF response.status_code = 304 THEN NotModified(f, cache, response, w)
       ELSE IF response.status_code = 200 THEN NewDocument(f, response, w)
       ELSE Outcome(f, FALSE, 1, FALSE)

\* services.get(tld_lower), then the first URL if the list has one
ServerOf(services, tld) ==
    LET tld_lower == LowerStr(tld)
    IN IF tld_lower \in DOMAIN services /\ Len(services[tld_lower]) > 0
       THEN services[tld_lower][1]
       ELSE None

Hosts == { <<"v">>, <<"p">> }

\* ------------------------------------------------------------- the state
VARIABLES
    file,                   \* the bootstrap cache file
    lastCall,               \* the latest call into rdap_bootstrap and how it went
    pending,                \* the write of the file another process is in, or None
    fetched,                \* fetches of the bootstrap document since the batch began
    domains,                \* the list given to check_domains
    max_concurrent,         \* AsyncRDAPClient(max_concurrent_per_host=...)
    max_retries,            \* AsyncRDAPClient(max_retries=...)
    backoff_runs,           \* how long a registry keeps sending 429 without Retry-After
    calls,                  \* the calls of check_domains_async so far
    uptime,                 \* the reading of time.monotonic(), up to min_delay
    pc,                     \* where each _check_single task is
    limiter,                \* the host whose limiter the task holds, or None
    attempt,                \* the loop variable of the retry loop
    timer,                  \* ticks left of the task's asyncio.sleep
    last_error_type, last_retry_after, last_error,
    result,                 \* the DomainResult a task returned, or None
    registry,               \* RateLimiterRegistry._limiters: hosts with a limiter
    created,                \* per host: the HostRateLimiter objects made for it
    semaphore,              \* HostRateLimiter._semaphore: free slots, per host
    lock,                   \* HostRateLimiter._lock: the task inside, or 0
    lastRequestTime,        \* age of _last_request_time, per host
    retryAfterUntil,        \* time left to _retry_after_until, per host
    consecutiveRateLimits,  \* _consecutive_rate_limits, per host
    batch,                  \* "running", "returned" or "raised"
    returned,               \* the list check_domains returned
    finished,               \* the tasks in the order they ended
    acquires, releases, requests,   \* per task: acquire() returns, release()
                                    \* calls, requests issued
    lastOutcome,            \* per task: how its latest request ended
    lastHeader,             \* per task: the Retry-After header of its latest response
    lastRelease             \* per task: Some(rate_limited) of its latest release()

taskVars == << pc, limiter, attempt, timer, last_error_type, last_retry_after,
               last_error, result >>
limiterVars == << registry, created, semaphore, lock, lastRequestTime, retryAfterUntil,
                  consecutiveRateLimits >>
batchVars == << batch, returned, finished >>
historyVars == << acquires, releases, requests, lastOutcome, lastHeader, lastRelease >>
bootVars == << file, lastCall, pending, fetched >>
inputVars == << domains, max_concurrent, max_retries, backoff_runs, calls >>
vars == << bootVars, inputVars, uptime, taskVars, limiterVars, batchVars, historyVars >>

Tasks == 1 .. Len(domains)

\* Every list of at most n domains, duplicates allowed.
Lists(n) == UNION { [1 .. k -> Domains] : k \in 0 .. n }

\* ----------------------------------------------------------- DomainResult
DomainResult(domain, status, error_type, error_message, retry_after) ==
    [ domain |-> domain, status |-> status, error_type |-> error_type,
      error_message |-> error_message, retry_after |-> retry_after ]

\* ------------------------------------------------------- HostRateLimiter
\* Mutant: one semaphore counts for every host.
SlotFreeEverywhere(h) == \A g \in DOMAIN semaphore : semaphore[g] > 0

\* __post_init__: asyncio.Semaphore(self.max_concurrent)
InitialSlots == max_concurrent

\* Semaphore.acquire() goes through while the value is positive.
SlotFree(h) == semaphore[h] > 0

\* Mutant: the timing section is entered without the lock.
LockIgnored(h) == TRUE

\* `async with self._lock` goes through while nobody is inside.
LockFree(h) == lock[h] = 0

\* random.random(), in quarters: 0 and 3/4.
RandomDraws == { 0, 3 }

\* Mutant: the backoff doubles without a ceiling.
BackoffUncapped(n) == (2 ^ n) * TicksPerSecond

\* backoff = min(2**n, 32), in ticks
Backoff(n) == Min(2 ^ n, BackoffCap) * TicksPerSecond

\* jitter = backoff * 0.25 * (random.random() * 2 - 1), in ticks
Jitter(backoff, q) == (backoff * (2 * q - 4)) \div 16

\* The time left to _retry_after_until after release().
RetryAfterUntilAfter(old, n, rate_limited, retry_after, q) ==
    IF rate_limited
    THEN IF retry_after # None
         THEN Max(Value(retry_after), 0)
         ELSE Backoff(n) + Jitter(Backoff(n), q)
    ELSE old

\* Mutant: the slot is given back only when the check will try again.
ReleaseOnlyBeforeRetry(t, h, rate_limited, retry_after, q) ==
    LET n == IF rate_limited THEN consecutiveRateLimits[h] + 1 ELSE 0
        again == attempt[t] < max_retries - 1
    IN /\ consecutiveRateLimits' = [consecutiveRateLimits EXCEPT ![h] = n]
       /\ retryAfterUntil' =
              [retryAfterUntil EXCEPT
                  ![h] = RetryAfterUntilAfter(@, n, rate_limited, retry_after, q)]
       /\ semaphore' = [semaphore EXCEPT ![h] = IF again THEN @ + 1 ELSE @]
       /\ releases' = [releases EXCEPT ![t] = IF again THEN @ + 1 ELSE @]
       /\ lastRelease' = [lastRelease EXCEPT ![t] = Some(rate_limited)]

\* Mutant: a release that was not rate limited leaves the count as it is.
ReleaseKeepingCount(t, h, rate_limited, retry_after, q) ==
    LET n == IF rate_limited THEN consecutiveRateLimits[h] + 1
                             ELSE consecutiveRateLimits[h]
    IN /\ consecutiveRateLimits' = [consecutiveRateLimits EXCEPT ![h] = n]
       /\ retryAfterUntil' =
              [retryAfterUntil EXCEPT
                  ![h] = RetryAfterUntilAfter(@, n, rate_limited, retry_after, q)]
       /\ semaphore' = [semaphore EXCEPT ![h] = @ + 1]
       /\ releases' = [releases EXCEPT ![t] = @ + 1]
       /\ lastRelease' = [lastRelease EXCEPT ![t] = Some(rate_limited)]

\* Mutant: a release that was not rate limited lifts the pending wait.
ReleaseLiftingWait(t, h, rate_limited, retry_after, q) ==
    LET n == IF rate_limited THEN consecutiveRateLimits[h] + 1 ELSE 0
    IN /\ consecutiveRateLimits' = [consecutiveRateLimits EXCEPT ![h] = n]
       /\ retryAfterUntil' =
              [retryAfterUntil EXCEPT
                  ![h] = IF rate_limited
                         THEN RetryAfterUntilAfter(@, n, rate_limited, retry_after, q)
                         ELSE 0]
       /\ semaphore' = [semaphore EXCEPT ![h] = @ + 1]
       /\ releases' = [releases EXCEPT ![t] = @ + 1]
       /\ lastRelease' = [lastRelease EXCEPT ![t] = Some(rate_limited)]

\* release(rate_limited, retry_after) of host h's limiter by task t.
Release(t, h, rate_limited, retry_after, q) ==
    LET n == IF rate_limited THEN consecutiveRateLimits[h] + 1 ELSE 0
    IN /\ consecutiveRateLimits' = [consecutiveRateLimits EXCEPT ![h] = n]
       /\ retryAfterUntil' =
              [retryAfterUntil EXCEPT
                  ![h] = RetryAfterUntilAfter(@, n, rate_limited, retry_after, q)]
       /\ semaphore' = [semaphore EXCEPT ![h] = @ + 1]
       /\ releases' = [releases EXCEPT ![t] = @ + 1]
       /\ lastRelease' = [lastRelease EXCEPT ![t] = Some(rate_limited)]

\* The sleep that enforces the minimum delay: 0 when none is needed.
MinDelayWait(elapsed) == IF elapsed < MinDelay THEN MinDelay - elapsed ELSE 0

\* acquire() from the elapsed-time check on: sleep for the rest of the
\* minimum delay, or record the request time, leave the lock and return;
\* the caller then issues its request.
Granted(t, h) ==
    /\ lastRequestTime' = [lastRequestTime EXCEPT ![h] = 0]
    /\ lock' = [lock EXCEPT ![h] = 0]
    /\ pc' = [pc EXCEPT ![t] = "request"]
    /\ timer' = [timer EXCEPT ![t] = 0]
    /\ acquires' = [acquires EXCEPT ![t] = @ + 1]
    /\ requests' = [requests EXCEPT ![t] = @ + 1]

EnforceMinDelay(t, h) ==
    IF MinDelayWait(lastRequestTime[h]) > 0
    THEN /\ pc' = [pc EXCEPT ![t] = "sleep_min_delay"]
         /\ timer' = [timer EXCEPT ![t] = MinDelayWait(lastRequestTime[h])]
         /\ lock' = [lock EXCEPT ![h] = t]
         /\ UNCHANGED << lastRequestTime, acquires, requests >>
    ELSE Granted(t, h)

\* ---------------------------------------------------- _parse_retry_after
\* A Retry-After header is None (absent) or a record: "empty", "blank"
\* (white space only), "number" (value: what float() reads, in ticks),
\* "padded" (a number between white space), "date" (value: the date minus
\* time.time(), in ticks) or "garbage".
\* header.strip()
Strip(header) ==
    IF header.kind = "blank" THEN [kind |-> "empty"]
    ELSE IF header.kind = "padded" THEN [kind |-> "number", value |-> header.value]
    ELSE header

_parse_retry_after(header) ==
    IF header = None THEN None
    ELSE IF header.kind = "empty" THEN None
    ELSE IF Strip(header).kind = "number" THEN Some(Strip(header).value)
    ELSE IF Strip(header).kind = "date" THEN Some(Max(0, Strip(header).value))
    ELSE None

NumberHeader(v) == [kind |-> "number", value |-> v]

\* ------------------------------------------------------ what a request does
\* httpx's get() ends in a response, in TimeoutException, in another
\* HTTPError, or in an exception that is no HTTPError (httpx.InvalidURL,
\* raised for a name with a control character, is one).
Response(code, header) == [kind |-> "response", status_code |-> code, header |-> header]
TimeoutException == [kind |-> "timeout"]
HTTPError == [kind |-> "network", text |-> <<"E", "r", "r">>]
LongHTTPError == [kind |-> "network", text |-> [i \in 1 .. MessageLimit + 1 |-> "x"]]
\* An HTTPError whose str() is empty (httpx.ReadError for a connection the peer
\* reset carries no message); a text is the concatenation of its pieces.
SilentHTTPError == [kind |-> "network", text |-> << "" >>]
OtherException == [kind |-> "exception"]

StatusCodes == { 404, 200, 500 }

\* The ways a request may end.
Outcomes ==
    { Response(c, None) : c \in StatusCodes }
    \cup { Response(429, NumberHeader(v)) : v \in 0 .. MaxRetryAfter }
    \cup { Response(429, None) }
    \cup { TimeoutException, HTTPError, LongHTTPError, SilentHTTPError,
           OtherException }

\* A 429 without Retry-After makes release() back off exponentially; the
\* registry of host h sends one only while the backoff it leads to is short.
Sendable(h, o) ==
    (o.kind = "response" /\ o.status_code = 429 /\ o.header = None)
        => consecutiveRateLimits[h] < backoff_runs

OutcomeTag(o) == IF o.kind = "response" THEN ToString(o.status_code) ELSE o.kind

\* ------------------------------------------------------- AsyncRDAPClient
\* Mutant: the exception text is kept whole.
ErrorMessageUncut(error, error_type) ==
    IF error_type = "timeout" THEN << "Request timed out after retries" >>
    ELSE IF error_type = "rate_limit" THEN << "Rate limited, please retry later" >>
    ELSE error

\* The final-error construction after the retry loop.
ErrorMessage(error, error_type) ==
    IF error_type = "timeout" THEN << "Request timed out after retries" >>
    ELSE IF error_type = "rate_limit" THEN << "Rate limited, please retry later" >>
    ELSE IF error # None THEN SubSeq(error, 1, Min(Len(error), MessageLimit))
    ELSE None

Exhausted(domain, error, error_type, retry_after) ==
    DomainResult(domain, "error", error_type,
                 ErrorMessage(error, error_type), retry_after)

\* `attempt < self._max_retries - 1`: another attempt follows this one.
AttemptsRemain(a) == a < max_retries - 1

\* Mutant: the sleep between attempts is the linear one whatever the header.
WaitTimeLinear(retry_after, a) == ((a + 1) * TicksPerSecond) \div 2

\* wait_time = retry_after if retry_after else 0.5 * (attempt + 1); the
\* timeout and network paths pass None.
WaitTime(retry_after, a) ==
    IF retry_after # None /\ Value(retry_after) # 0
    THEN Value(retry_after)
    ELSE ((a + 1) * TicksPerSecond) \div 2

\* Mutant: a status that is neither 404, 200 nor 429 is retried like a 429.
ClassifyRetryingOtherStatus(domain, o) ==
    IF o.kind # "response" THEN None
    ELSE IF o.status_code = 404
         THEN DomainResult(domain, "available", NoneTag, None, None)
    ELSE IF o.status_code = 200
         THEN DomainResult(domain, "unavailable", NoneTag, None, None)
    ELSE None

\* The result of a request that ended the check at once, or None.
Classify(domain, o) ==
    IF o.kind # "response" THEN None
    ELSE IF o.status_code = 404
         THEN DomainResult(domain, "available", NoneTag, None, None)
    ELSE IF o.status_code = 200
         THEN DomainResult(domain, "unavailable", NoneTag, None, None)
    ELSE IF o.status_code = 429 THEN None
    ELSE DomainResult(domain, "error", "http_error",
                      << "RDAP status", ToString(o.status_code) >>, None)

\* A task ends with result r.
Finish(t, r) ==
    /\ result' = [result EXCEPT ![t] = r]
    /\ pc' = [pc EXCEPT ![t] = "done"]
    /\ finished' = Append(finished, t)

\* Mutant: one round too many.
LoopHasNextOffByOne(a) == a + 1 <= max_retries

\* `for attempt in range(self._max_retries)`: the loop has a next round.
LoopHasNext(a) == a + 1 < max_retries

\* `continue`: the next round of the retry loop, or the final error after it.
Continue(t, error, error_type, retry_after) ==
    IF LoopHasNext(attempt[t])
    THEN /\ attempt' = [attempt EXCEPT ![t] = @ + 1]
         /\ pc' = [pc EXCEPT ![t] = "acquire_semaphore"]
         /\ UNCHANGED << result, finished >>
    ELSE /\ Finish(t, Exhausted(domains[t], error, error_type, retry_after))
         /\ UNCHANGED attempt

\* The end of an attempt that did not end the check: sleep if attempts
\* remain, then `continue`.
Retry(t, wait, error, error_type, retry_after) ==
    IF AttemptsRemain(attempt[t])
    THEN /\ pc' = [pc EXCEPT ![t] = "sleep_backoff"]
         /\ timer' = [timer EXCEPT ![t] = Max(wait, 0)]
         /\ UNCHANGED << attempt, result, finished >>
    ELSE /\ Continue(t, error, error_type, retry_after)
         /\ UNCHANGED timer

\* Mutant: every call makes a new limiter.
IsAlwaysNewHost(h) == TRUE

\* RateLimiterRegistry.get_limiter for a URL of host h: the limiter of h,
\* made now if the registry has none.
IsNewHost(h) == h \notin registry

get_limiter(h) ==
    IF IsNewHost(h)
    THEN /\ registry' = registry \cup { h }
         /\ created' = [created EXCEPT ![h] = @ + 1]
         /\ semaphore' = [semaphore EXCEPT ![h] = InitialSlots]
         /\ lock' = [lock EXCEPT ![h] = 0]
         /\ lastRequestTime' = [lastRequestTime EXCEPT ![h] = uptime]
         /\ retryAfterUntil' = [retryAfterUntil EXCEPT ![h] = 0]
         /\ consecutiveRateLimits' = [consecutiveRateLimits EXCEPT ![h] = 0]
    ELSE UNCHANGED limiterVars

\* _check_single up to the first await that can suspend: the TLD, the
\* bootstrap lookup, the limiter of the server's host (created if the
\* registry has none), and the entry into the retry loop.
Start(t) ==
    /\ pc[t] = "start"
    /\ LET tld == ExtractTLD(domains[t])
           rdap_server == get_rdap_server(tld)
       IN IF rdap_server = None
          THEN /\ Finish(t, DomainResult(domains[t], "unsupported", "tld_unsupported",
                                         << "TLD not in RDAP bootstrap" >> \o tld, None))
               /\ UNCHANGED << limiter, limiterVars >>
          ELSE /\ get_limiter(HostOf(rdap_server))
               /\ limiter' = [limiter EXCEPT ![t] = HostOf(rdap_server)]
               /\ IF max_retries > 0
                  THEN /\ pc' = [pc EXCEPT ![t] = "acquire_semaphore"]
                       /\ UNCHANGED << result, finished >>
                  ELSE Finish(t, Exhausted(domains[t], None, NoneTag, None))
    /\ UNCHANGED << bootVars, inputVars, uptime, attempt, timer, last_error_type,
                    last_retry_after, last_error, batch, returned, historyVars >>

\* acquire() inside the lock: the retry-after check, then the minimum delay.
LockSection(t, h) ==
    IF retryAfterUntil[h] > 0
    THEN /\ pc' = [pc EXCEPT ![t] = "sleep_retry_after"]
         /\ timer' = [timer EXCEPT ![t] = retryAfterUntil[h]]
         /\ lock' = [lock EXCEPT ![h] = t]
         /\ UNCHANGED << lastRequestTime, acquires, requests >>
    ELSE EnforceMinDelay(t, h)

\* acquire(): await self._semaphore.acquire(), then `async with self._lock`,
\* which does not suspend when the lock is free.
AcquireSemaphore(t) ==
    LET h == limiter[t]
    IN /\ pc[t] = "acquire_semaphore"
       /\ SlotFree(h)
       /\ semaphore' = [semaphore EXCEPT ![h] = @ - 1]
       /\ IF LockFree(h)
          THEN LockSection(t, h)
          ELSE /\ pc' = [pc EXCEPT ![t] = "acquire_lock"]
               /\ UNCHANGED << timer, lock, lastRequestTime, acquires, requests >>
       /\ UNCHANGED << bootVars, inputVars, uptime, limiter, attempt, last_error_type, last_retry_after,
                       last_error, result, registry, created, retryAfterUntil,
                       consecutiveRateLimits, batchVars, releases, lastOutcome,
                       lastHeader, lastRelease >>

\* acquire(): the lock another task was in has become free.
AcquireLock(t) ==
    LET h == limiter[t]
    IN /\ pc[t] = "acquire_lock"
       /\ LockFree(h)
       /\ LockSection(t, h)
       /\ UNCHANGED << bootVars, inputVars, uptime, limiter, attempt, last_error_type, last_retry_after,
                       last_error, result, registry, created, semaphore, retryAfterUntil,
                       consecutiveRateLimits, batchVars, releases, lastOutcome,
                       lastHeader, lastRelease >>

\* acquire(): the sleep for the retry-after is over
WakeRetryAfter(t) ==
    /\ pc[t] = "sleep_retry_after"
    /\ timer[t] = 0
    /\ EnforceMinDelay(t, limiter[t])
    /\ UNCHANGED << bootVars, inputVars, uptime, limiter, attempt, last_error_type, last_retry_after,
                    last_error, result, registry, created, semaphore, retryAfterUntil,
                    consecutiveRateLimits, batchVars, releases, lastOutcome,
                       lastHeader, lastRelease >>

\* acquire(): the sleep for the minimum delay is over
WakeMinDelay(t) ==
    /\ pc[t] = "sleep_min_delay"
    /\ timer[t] = 0
    /\ Granted(t, limiter[t])
    /\ UNCHANGED << bootVars, inputVars, uptime, limiter, attempt, last_error_type, last_retry_after,
                    last_error, result, registry, created, semaphore, retryAfterUntil,
                    consecutiveRateLimits, batchVars, releases, lastOutcome,
                       lastHeader, lastRelease >>

\* The request of task t ends in outcome o; q is the random draw release()
\* makes for its jitter.
Respond(t, o, q) ==
    LET h == limiter[t]
        domain == domains[t]
        retry_after == _parse_retry_after(o.header)
    IN /\ pc[t] = "request"
       /\ Sendable(h, o)
       /\ lastOutcome' = [lastOutcome EXCEPT ![t] = OutcomeTag(o)]
       /\ lastHeader' = [lastHeader EXCEPT
                             ![t] = IF o.kind = "response" THEN o.header ELSE None]
       /\ IF o.kind = "exception"
          THEN \* caught by no except clause: the task ends with the slot held
               /\ pc' = [pc EXCEPT ![t] = "raised"]
               /\ UNCHANGED << attempt, timer, last_error_type, last_retry_after,
                               last_error, result, finished, semaphore,
                               retryAfterUntil, consecutiveRateLimits, releases,
                               lastRelease >>
          ELSE IF Classify(domain, o) # None
          THEN /\ Release(t, h, FALSE, None, q)
               /\ Finish(t, Classify(domain, o))
               /\ UNCHANGED << attempt, timer, last_error_type, last_retry_after,
                               last_error >>
          ELSE IF o.kind = "response"
          THEN /\ last_error_type' = [last_error_type EXCEPT ![t] = "rate_limit"]
               /\ last_retry_after' = [last_retry_after EXCEPT ![t] = retry_after]
               /\ last_error' = [last_error EXCEPT ![t] = None]
               /\ Release(t, h, TRUE, retry_after, q)
               /\ Retry(t, WaitTime(retry_after, attempt[t]),
                        None, "rate_limit", retry_after)
          ELSE IF o.kind = "timeout"
          THEN /\ last_error_type' = [last_error_type EXCEPT ![t] = "timeout"]
               /\ last_error' = [last_error EXCEPT ![t] = None]
               /\ Release(t, h, FALSE, None, q)
               /\ Retry(t, WaitTime(None, attempt[t]),
                        None, "timeout", last_retry_after[t])
               /\ UNCHANGED last_retry_after
          ELSE /\ last_error_type' = [last_error_type EXCEPT ![t] = "network"]
               /\ last_error' = [last_error EXCEPT ![t] = o.text]
               /\ Release(t, h, FALSE, None, q)
               /\ Retry(t, WaitTime(None, attempt[t]),
                        o.text, "network", last_retry_after[t])
               /\ UNCHANGED last_retry_after
       /\ UNCHANGED << bootVars, inputVars, uptime, limiter, registry, created, lock, lastRequestTime, batch,
                       returned, acquires, requests >>

\* The sleep between two attempts is over.
WakeBackoff(t) ==
    /\ pc[t] = "sleep_backoff"
    /\ timer[t] = 0
    /\ Continue(t, last_error[t], last_error_type[t], last_retry_after[t])
    /\ UNCHANGED << bootVars, inputVars, uptime, limiter, timer, last_error_type, last_retry_after,
                    last_error, limiterVars, batch, returned, historyVars >>

\* Mutant: the results in the order the tasks ended.
GatherAsCompleted(res, order) == [k \in 1 .. Len(order) |-> res[order[k]]]

\* asyncio.gather(*tasks): the results in the order of the tasks.
Gather(res, order) == [i \in 1 .. Len(res) |-> res[i]]

\* ------------------------------------------------------------ server.py
\* The truth value of an error text: None and the empty string are false.
Truthy(text) == \E i \in 1 .. Len(text) : text[i] # ""

\* server.DomainResult
ServerResult(domain, available, error) ==
    [domain |-> domain, available |-> available, error |-> error]

\* _check_domains_rdap_async: the conversion of the client's results.
_check_domains_rdap_async(rdap_results) ==
    [ i \in 1 .. Len(rdap_results) |->
        LET r == rdap_results[i]
        IN IF r.status = "available" THEN ServerResult(r.domain, TRUE, None)
           ELSE IF r.status = "unavailable" THEN ServerResult(r.domain, FALSE, None)
           ELSE ServerResult(r.domain, FALSE, r.error_message) ]

DomainsOf(results) == [ i \in 1 .. Len(results) |-> results[i].domain ]

\* check_domains: the list the loop over the results puts r in.
ListedAs(r, use_rdap) ==
    IF r.available THEN "available"
    ELSE IF Truthy(r.error) THEN (IF use_rdap THEN "errors" ELSE "unavailable")
    ELSE "unavailable"

\* check_domains: the response built from the results (an empty errors list
\* stands for the key being left out).
check_domains(results, use_rdap, onlyReportAvailable) ==
    LET list(name) == DomainsOf(SelectSeq(results,
                                          LAMBDA r : ListedAs(r, use_rdap) = name))
    IN IF onlyReportAvailable
       THEN [available |-> list("available"), unavailable |-> << >>, errors |-> << >>]
       ELSE [available |-> list("available"), unavailable |-> list("unavailable"),
             errors |-> list("errors")]

\* check_domains: `if not domains: return []`
CheckDomainsEmpty ==
    /\ batch = "running"
    /\ domains = << >>
    /\ batch' = "returned"
    /\ returned' = << >>
    /\ UNCHANGED << bootVars, inputVars, uptime, taskVars, limiterVars, finished, historyVars >>

\* check_domains: every task has returned, gather hands over the results.
CheckDomainsReturn ==
    /\ batch = "running"
    /\ domains # << >>
    /\ \A t \in Tasks : pc[t] = "done"
    /\ batch' = "returned"
    /\ returned' = Gather(result, finished)
    /\ UNCHANGED << bootVars, inputVars, uptime, taskVars, limiterVars, finished, historyVars >>

\* check_domains: a task raised, gather raises its exception; the other
\* tasks go on.
CheckDomainsRaise ==
    /\ batch = "running"
    /\ \E t \in Tasks : pc[t] = "raised"
    /\ batch' = "raised"
    /\ UNCHANGED << bootVars, inputVars, uptime, taskVars, limiterVars, returned, finished, historyVars >>

\* Half a second passes.
Tick ==
    /\ timer' = [t \in Tasks |-> Max(timer[t] - 1, 0)]
    /\ retryAfterUntil' = [h \in Hosts |-> Max(retryAfterUntil[h] - 1, 0)]
    /\ lastRequestTime' = [h \in Hosts |-> IF h \in registry
                                            THEN Min(lastRequestTime[h] + 1, MinDelay)
                                            ELSE lastRequestTime[h]]
    /\ uptime' = Min(uptime + 1, MinDelay)
    /\ UNCHANGED << bootVars, inputVars, pc, limiter, attempt, last_error_type, last_retry_after,
                    last_error, result, registry, created, semaphore, lock,
                    consecutiveRateLimits, batchVars, historyVars >>

\* No call into rdap_bootstrap yet.  "turn" changes with every call.
NoCall ==
    [turn |-> 0, name |-> "none", force |-> FALSE, tld |-> << >>, response |-> NetworkFailure,
     write |-> "written", fetches |-> 0, result |-> FALSE, raised |-> FALSE,
     answer |-> None, supported |-> FALSE]

\* A new AsyncRDAPClient, whose registry is empty (a host without a limiter
\* has its fields at 0), with one task per domain of the list.
FreshClient ==
    /\ pc = [t \in Tasks |-> "start"]
    /\ limiter = [t \in Tasks |-> None]
    /\ attempt = [t \in Tasks |-> 0]
    /\ timer = [t \in Tasks |-> 0]
    /\ last_error_type = [t \in Tasks |-> NoneTag]
    /\ last_retry_after = [t \in Tasks |-> None]
    /\ last_error = [t \in Tasks |-> None]
    /\ result = [t \in Tasks |-> None]
    /\ registry = { }
    /\ semaphore = [h \in Hosts |-> 0]
    /\ lock = [h \in Hosts |-> 0]
    /\ lastRequestTime = [h \in Hosts |-> 0]
    /\ retryAfterUntil = [h \in Hosts |-> 0]
    /\ consecutiveRateLimits = [h \in Hosts |-> 0]
    /\ batch = "running"
    /\ returned = << >>
    /\ finished = << >>
    /\ acquires = [t \in Tasks |-> 0]
    /\ releases = [t \in Tasks |-> 0]
    /\ requests = [t \in Tasks |-> 0]
    /\ lastOutcome = [t \in Tasks |-> NoneTag]
    /\ lastHeader = [t \in Tasks |-> None]
    /\ lastRelease = [t \in Tasks |-> None]

\* check_domains(domains) has created one task per domain on a fresh client;
\* the clock reads anything.
Init ==
    /\ domains \in Lists(MaxDomains)
    /\ max_concurrent \in 1 .. MaxConcurrent
    /\ max_retries \in 0 .. MaxRetries
    /\ backoff_runs = MaxBackoffRuns
    /\ calls = 1
    /\ uptime \in 0 .. MinDelay
    /\ created = [h \in Hosts |-> 0]
    /\ FreshClient
    /\ file = CacheFile(Services, "full", DEFAULT_CACHE_TTL)
    /\ lastCall = NoCall
    /\ pending = None
    /\ fetched = 0

Next ==
    \/ \E t \in Tasks : Start(t)
    \/ \E t \in Tasks : AcquireSemaphore(t)
    \/ \E t \in Tasks : AcquireLock(t)
    \/ \E t \in Tasks : WakeRetryAfter(t)
    \/ \E t \in Tasks : WakeMinDelay(t)
    \/ \E t \in Tasks : \E o \in Outcomes : \E q \in RandomDraws :
           Respond(t, o, q)
    \/ \E t \in Tasks : WakeBackoff(t)
    \/ CheckDomainsEmpty
    \/ CheckDomainsReturn
    \/ CheckDomainsRaise
    \/ Tick

Spec == Init /\ [][Next]_vars

\* The event loop runs every task that can run, asyncio.Semaphore and
\* asyncio.Lock wake their waiters first come first served, every request
\* ends, and time passes.
TaskStep(t) ==
    \/ Start(t)
    \/ WakeRetryAfter(t)
    \/ WakeMinDelay(t)
    \/ WakeBackoff(t)
    \/ \E o \in Outcomes : \E q \in RandomDraws : Respond(t, o, q)

Fairness ==
    /\ \A t \in 1 .. MaxDomains : WF_vars(t \in Tasks /\ TaskStep(t))
    /\ \A t \in 1 .. MaxDomains : SF_vars(t \in Tasks /\ AcquireSemaphore(t))
    /\ \A t \in 1 .. MaxDomains : SF_vars(t \in Tasks /\ AcquireLock(t))
    /\ WF_vars(CheckDomainsEmpty \/ CheckDomainsReturn \/ CheckDomainsRaise)
    /\ WF_vars(Tick)

FairSpec == Spec /\ Fairness

\* ------------------------------------------- one check at a time, call by call
\* check_domains_async: `async with AsyncRDAPClient(timeout=timeout,
\* max_retries=max_retries) as client`, a new client with a new registry for
\* every call.  The calls follow one another, each with one domain of a
\* registry that may answer 429 without Retry-After every time.
SoloDomains == { << "a", ".", "c" >>, << "b", ".", "n" >> }

SoloInit ==
    /\ domains \in { << d >> : d \in SoloDomains }
    /\ max_concurrent = MaxConcurrent
    /\ max_retries = SoloRetries
    /\ backoff_runs = SoloRetries
    /\ calls = 1
    /\ uptime \in 0 .. MinDelay
    /\ created = [h \in Hosts |-> 0]
    /\ FreshClient
    /\ file = CacheFile(Services, "full", DEFAULT_CACHE_TTL)
    /\ lastCall = NoCall
    /\ pending = None
    /\ fetched = 0

\* The previous call is over; check_domains_async is called again.
check_domains_async ==
    /\ batch # "running"
    /\ calls < MaxCalls
    /\ calls' = calls + 1
    /\ domains' \in { << d >> : d \in SoloDomains }
    /\ LET T == 1 .. Len(domains')
       IN /\ pc' = [t \in T |-> "start"]
          /\ limiter' = [t \in T |-> None]
          /\ attempt' = [t \in T |-> 0]
          /\ timer' = [t \in T |-> 0]
          /\ last_error_type' = [t \in T |-> NoneTag]
          /\ last_retry_after' = [t \in T |-> None]
          /\ last_error' = [t \in T |-> None]
          /\ result' = [t \in T |-> None]
          /\ acquires' = [t \in T |-> 0]
          /\ releases' = [t \in T |-> 0]
          /\ requests' = [t \in T |-> 0]
          /\ lastOutcome' = [t \in T |-> NoneTag]
          /\ lastHeader' = [t \in T |-> None]
          /\ lastRelease' = [t \in T |-> None]
    /\ registry' = { }
    /\ semaphore' = [h \in Hosts |-> 0]
    /\ lock' = [h \in Hosts |-> 0]
    /\ lastRequestTime' = [h \in Hosts |-> 0]
    /\ retryAfterUntil' = [h \in Hosts |-> 0]
    /\ consecutiveRateLimits' = [h \in Hosts |-> 0]
    /\ batch' = "running"
    /\ returned' = << >>
    /\ finished' = << >>
    /\ UNCHANGED << bootVars, max_concurrent, max_retries, backoff_runs, uptime, created >>

SoloNext ==
    \/ \E t \in Tasks : Start(t)
    \/ \E t \in Tasks : AcquireSemaphore(t)
    \/ \E t \in Tasks : WakeRetryAfter(t)
    \/ \E t \in Tasks : WakeMinDelay(t)
    \/ \E t \in Tasks : \E o \in Outcomes : \E q \in RandomDraws :
           Respond(t, o, q)
    \/ \E t \in Tasks : WakeBackoff(t)
    \/ CheckDomainsReturn
    \/ CheckDomainsRaise
    \/ check_domains_async
    \/ Tick

SoloSpec == SoloInit /\ [][SoloNext]_vars

\* ------------------------------------------------- rdap_bootstrap, call by call
\* The calls into rdap_bootstrap are synchronous: one ends before the next
\* begins.  Each draws what the IANA server would answer and how a write of
\* the cache file would end; a call that makes no request or no write does
\* not use them.
Tlds == { <<"c">>, <<"C">>, <<"o">>, <<"e">>, <<"z">> }

refresh_bootstrap(force, response, w) ==
    LET out == RefreshOutcome(file, force, response, w)
    IN /\ StillValid(_load_cache(file), force) => response = NetworkFailure
       /\ ~Saves(response) => w = "written"
       /\ file' = out.file
       /\ lastCall' = [turn |-> 1 - lastCall.turn, name |-> "refresh_bootstrap", force |-> force, tld |-> << >>,
                       response |-> response, write |-> w, fetches |-> out.fetches,
                       result |-> out.result, raised |-> out.raised, answer |-> None,
                       supported |-> FALSE]
       /\ UNCHANGED << pending, fetched, inputVars, uptime, taskVars, limiterVars, batchVars, historyVars >>

\* `not cache or time.time() >= cache.get("expires", 0)`
Stale(f) == _load_cache(f) = None \/ _load_cache(f).expires <= 0

\* get_rdap_server(tld): refresh if there is no cache or it has expired, load
\* the cache again, and look the TLD up.
Lookup(f, tld, response, w) ==
    LET out == IF Stale(f) THEN RefreshOutcome(f, FALSE, response, w)
                        ELSE Outcome(f, FALSE, 0, FALSE)
        reloaded == _load_cache(out.file)
    IN [out |-> out,
        answer |-> IF out.raised \/ reloaded = None THEN None
                   ELSE ServerOf(reloaded.services, tld)]

GetRdapServer(tld, response, w) ==
    LET call == Lookup(file, tld, response, w)
        out == call.out
    IN /\ ~Saves(response) => w = "written"
       /\ ~Stale(file) => response = NetworkFailure
       /\ file' = out.file
       /\ lastCall' = [turn |-> 1 - lastCall.turn, name |-> "get_rdap_server", force |-> FALSE, tld |-> tld,
                       response |-> response, write |-> w, fetches |-> out.fetches,
                       result |-> out.result, raised |-> out.raised,
                       answer |-> call.answer, supported |-> FALSE]
       /\ UNCHANGED << pending, fetched, inputVars, uptime, taskVars, limiterVars, batchVars, historyVars >>

\* is_tld_supported(tld): `get_rdap_server(tld) is not None`
is_tld_supported(tld, response, w) ==
    LET call == Lookup(file, tld, response, w)
        out == call.out
    IN /\ ~Saves(response) => w = "written"
       /\ ~Stale(file) => response = NetworkFailure
       /\ file' = out.file
       /\ lastCall' = [turn |-> 1 - lastCall.turn, name |-> "is_tld_supported", force |-> FALSE, tld |-> tld,
                       response |-> response, write |-> w, fetches |-> out.fetches,
                       result |-> out.result, raised |-> out.raised,
                       answer |-> call.answer,
                       supported |-> ~out.raised /\ call.answer # None]
       /\ UNCHANGED << pending, fetched, inputVars, uptime, taskVars, limiterVars, batchVars, historyVars >>

\* Eight hours pass.
BootTick ==
    /\ file.state = "valid"
    /\ file.expires > 0
    /\ file' = [file EXCEPT !.expires = @ - 1]
    /\ UNCHANGED << lastCall, pending, fetched, inputVars, uptime, taskVars, limiterVars,
                    batchVars, historyVars >>

\* The process starts with no cache file, an unreadable one, or a cache
\* written earlier, expired or not; no batch is running.
BootInit ==
    /\ file \in { MissingFile, CorruptFile }
                \cup { CacheFile(_parse_bootstrap_services(FullDocument), "full", e) :
                           e \in { 0, DEFAULT_CACHE_TTL } }
    /\ lastCall = NoCall
    /\ pending = None
    /\ fetched = 0
    /\ domains = << >>
    /\ max_concurrent = MaxConcurrent
    /\ max_retries = MaxRetries
    /\ backoff_runs = MaxBackoffRuns
    /\ calls = 0
    /\ uptime = 0
    /\ created = [h \in Hosts |-> 0]
    /\ FreshClient

BootNext ==
    \/ \E force \in BOOLEAN : \E response \in BootResponses : \E w \in WriteOutcomes :
           refresh_bootstrap(force, response, w)
    \/ \E tld \in Tlds : \E response \in BootResponses : \E w \in WriteOutcomes :
           GetRdapServer(tld, response, w)
    \/ BootTick

BootSpec == BootInit /\ [][BootNext]_vars

\* ------------------------------------------- _parse_retry_after, call after call
\* The Retry-After headers a server may send.
Headers ==
    { None, [kind |-> "empty"], [kind |-> "blank"], [kind |-> "garbage"] }
    \cup { [kind |-> k, value |-> v] :
               k \in { "number", "padded", "date" }, v \in -MaxSeconds .. MaxSeconds }

ParseRetryAfter(header) ==
    /\ lastCall' = [turn |-> 1 - lastCall.turn, name |-> "_parse_retry_after",
                    header |-> header, answer |-> _parse_retry_after(header)]
    /\ UNCHANGED << file, pending, fetched, inputVars, uptime, taskVars, limiterVars, batchVars,
                    historyVars >>

ParseNext == \E header \in Headers : ParseRetryAfter(header)

ParseSpec == BootInit /\ [][ParseNext]_vars

\* get_supported_tlds(): refresh if there is no cache or it has expired, load
\* the cache again, and return the sorted keys of its services (here: the
\* set of the keys).
get_supported_tlds(response, w) ==
    LET out == IF Stale(file) THEN RefreshOutcome(file, FALSE, response, w)
                              ELSE Outcome(file, FALSE, 0, FALSE)
        reloaded == _load_cache(out.file)
    IN /\ ~Saves(response) => w = "written"
       /\ ~Stale(file) => response = NetworkFailure
       /\ file' = out.file
       /\ lastCall' = [turn |-> 1 - lastCall.turn, name |-> "get_supported_tlds", force |-> FALSE,
                       tld |-> << >>, response |-> response, write |-> w,
                       fetches |-> out.fetches, result |-> out.result,
                       raised |-> out.raised,
                       answer |-> IF out.raised \/ reloaded = None THEN { }
                                  ELSE DOMAIN reloaded.services,
                       supported |-> FALSE]
       /\ UNCHANGED << pending, fetched, inputVars, uptime, taskVars, limiterVars, batchVars, historyVars >>

\* is_tld_supported and get_supported_tlds, call after call.
SupportNext ==
    \/ \E tld \in Tlds : \E response \in BootResponses : \E w \in WriteOutcomes :
           is_tld_supported(tld, response, w)
    \/ \E response \in BootResponses : \E w \in WriteOutcomes :
           get_supported_tlds(response, w)
    \/ BootTick

SupportSpec == BootInit /\ [][SupportNext]_vars

\* ------------------------------------------- the lookups of the checks of a batch
\* _check_single up to the first await that can suspend, the bootstrap lookup
\* made in the cache file.  The tasks asyncio.gather made run in their order,
\* each up to its first await; a check looks the server up nowhere else.
StartFromFile(t, response, w) ==
    LET tld == ExtractTLD(domains[t])
        call == Lookup(file, tld, response, w)
        out == call.out
        rdap_server == call.answer
    IN /\ pc[t] = "start"
       /\ \A u \in Tasks : u < t => pc[u] # "start"
       /\ ~Saves(response) => w = "written"
       /\ ~Stale(file) => response = NetworkFailure
       /\ file' = out.file
       /\ fetched' = fetched + out.fetches
       /\ lastCall' = [turn |-> 1 - lastCall.turn, name |-> "get_rdap_server", force |-> FALSE,
                       tld |-> tld, response |-> response, write |-> w,
                       fetches |-> out.fetches, result |-> out.result,
                       raised |-> out.raised, answer |-> rdap_server,
                       supported |-> FALSE]
       /\ IF out.raised
          THEN /\ pc' = [pc EXCEPT ![t] = "raised"]
               /\ UNCHANGED << result, finished, limiter, limiterVars >>
          ELSE IF rdap_server = None
          THEN /\ Finish(t, DomainResult(domains[t], "unsupported", "tld_unsupported",
                                         << "TLD not in RDAP bootstrap" >> \o tld, None))
               /\ UNCHANGED << limiter, limiterVars >>
          ELSE /\ get_limiter(HostOf(rdap_server))
               /\ limiter' = [limiter EXCEPT ![t] = HostOf(rdap_server)]
               /\ IF max_retries > 0
                  THEN /\ pc' = [pc EXCEPT ![t] = "acquire_semaphore"]
                       /\ UNCHANGED << result, finished >>
                  ELSE Finish(t, Exhausted(domains[t], None, NoneTag, None))
       /\ UNCHANGED << pending, inputVars, uptime, attempt, timer, last_error_type,
                       last_retry_after, last_error, batch, returned, historyVars >>

\* check_domains(domains) has created one task per domain; the cache file is
\* missing, unreadable, expired or valid.
BatchStartInit ==
    /\ file \in { MissingFile, CorruptFile }
                \cup { CacheFile(_parse_bootstrap_services(FullDocument), "full", e) :
                           e \in { 0, DEFAULT_CACHE_TTL } }
    /\ lastCall = NoCall
    /\ pending = None
    /\ fetched = 0
    /\ domains \in Lists(MaxDomains) \ { << >> }
    /\ max_concurrent = MaxConcurrent
    /\ max_retries \in 0 .. 1
    /\ backoff_runs = MaxBackoffRuns
    /\ calls = 1
    /\ uptime = 0
    /\ created = [h \in Hosts |-> 0]
    /\ FreshClient

BatchStartNext ==
    \E t \in Tasks : \E response \in BootResponses : \E w \in WriteOutcomes :
        StartFromFile(t, response, w)

BatchStartSpec == BatchStartInit /\ [][BatchStartNext]_vars

\* The two lookups, call after call.
LookupNext ==
    \/ \E tld \in Tlds : \E response \in BootResponses : \E w \in WriteOutcomes :
           GetRdapServer(tld, response, w)
    \/ \E tld \in Tlds : \E response \in BootResponses : \E w \in WriteOutcomes :
           is_tld_supported(tld, response, w)
    \/ BootTick

LookupSpec == BootInit /\ [][LookupNext]_vars

\* --------------------------------------- the cache file between two processes
\* Several server processes share the file at BOOTSTRAP_CACHE_PATH.  Another
\* process is in _save_cache: open(path, "w") empties the file, json.dump
\* fills it, and the file is closed; this process reads in between.
NewCaches ==
    { CacheFile(_parse_bootstrap_services(doc.services), doc.validators, e) :
          doc \in { JsonBody(FullDocument, "full"), JsonBody(SmallDocument, "small") },
          e \in { 1, DEFAULT_CACHE_TTL } }

\* _save_cache of another process: open(BOOTSTRAP_CACHE_PATH, "w")
SaveOpens(cache) ==
    /\ pending = None
    /\ pending' = [old |-> file, new |-> cache]
    /\ file' = CorruptFile
    /\ UNCHANGED << lastCall, fetched, inputVars, uptime, taskVars, limiterVars,
                    batchVars, historyVars >>

\* _save_cache of another process: json.dump has run and the file is closed,
\* or the write failed on the way.
SaveEnds(w) ==
    /\ pending # None
    /\ w # "refused"
    /\ file' = IF w = "written" THEN pending.new ELSE CorruptFile
    /\ pending' = None
    /\ UNCHANGED << lastCall, fetched, inputVars, uptime, taskVars, limiterVars,
                    batchVars, historyVars >>

\* This process calls _load_cache.
ReadCache ==
    /\ lastCall' = [turn |-> 1 - lastCall.turn, name |-> "_load_cache", force |-> FALSE,
                    tld |-> << >>, response |-> NetworkFailure, write |-> "written",
                    fetches |-> 0, result |-> FALSE, raised |-> FALSE,
                    answer |-> _load_cache(file), supported |-> FALSE]
    /\ UNCHANGED << file, pending, fetched, inputVars, uptime, taskVars, limiterVars, batchVars,
                    historyVars >>

SharedNext ==
    \/ \E cache \in NewCaches : SaveOpens(cache)
    \/ \E w \in WriteOutcomes : SaveEnds(w)
    \/ ReadCache
    \/ BootTick

SharedSpec == BootInit /\ [][SharedNext]_vars

\* ------------------------------------------------------------ properties
Terminal == { "available", "unavailable", "error", "unsupported" }

\* The tasks that have passed the semaphore of host h and not released it.
Holding == { "acquire_lock", "sleep_retry_after", "sleep_min_delay", "request",
             "raised" }
Holders(h) == { t \in Tasks : limiter[t] = h /\ pc[t] \in Holding }

\* The checks acquire() has returned to that have not called release().
InFlight(h) == { t \in Tasks : limiter[t] = h /\ acquires[t] > releases[t] }

\* The tasks inside the lock of host h's limiter.
InLock(h) ==
    { t \in Tasks : limiter[t] = h /\ pc[t] \in { "sleep_retry_after", "sleep_min_delay" } }

\* C1: when check_domains returns, it returns as many results as it was given
\* domains, and the i-th result is that of the i-th domain, whatever order
\* the checks ended in.
C1_ResultsInInputOrder ==
    batch = "returned" =>
        /\ Len(returned) = Len(domains)
        /\ \A i \in 1 .. Len(domains) :
               returned[i] # None /\ returned[i].domain = domains[i]

\* Two checks of different names on one host, both after a request, the
\* second having ended before the first, and the batch returned.
C1_Witness ==
    /\ batch = "returned"
    /\ Len(domains) = 2
    /\ domains[1] # domains[2]
    /\ limiter[1] = limiter[2]
    /\ finished = << 2, 1 >>
    /\ requests[1] > 0 /\ requests[2] > 0

\* C2: on every host, the checks that acquire() has let through and that have
\* not released number at most max_concurrent, whatever their TLDs.
C2_InFlightWithinLimit ==
    \A h \in Hosts : Cardinality(InFlight(h)) <= max_concurrent

\* A host with max_concurrent requests in flight while a check of another
\* TLD of the same host waits for a slot.
C2_Witness ==
    \E h \in Hosts : \E t, u \in Tasks :
        /\ Cardinality(InFlight(h)) = max_concurrent
        /\ t \in InFlight(h)
        /\ limiter[u] = h /\ pc[u] = "acquire_semaphore"
        /\ ExtractTLD(domains[t]) # ExtractTLD(domains[u])

\* C3: acquire() returns only when at least min_delay has passed since the
\* request time the limiter last recorded, and never are two acquirers inside
\* the timing section of one limiter.
C3_MinDelayBetweenGrants ==
    [][ /\ \A t \in Tasks :
               acquires'[t] > acquires[t] => lastRequestTime[limiter[t]] >= MinDelay
        /\ \A h \in Hosts : Cardinality(InLock(h)) <= 1 ]_vars

\* A check sleeps for the minimum delay after a grant to another check of the
\* same host, whose request is in flight.
C3_Witness ==
    \E t, u \in Tasks :
        /\ t # u /\ limiter[t] = limiter[u]
        /\ pc[t] = "request"
        /\ pc[u] = "sleep_min_delay" /\ timer[u] > 0
        /\ lastRequestTime[limiter[u]] < MinDelay

\* C4: acquire() returns only when the limiter's retry-after deadline has
\* been reached; no request starts while time is left to it.
C4_GrantHonoursRetryAfter ==
    [][ \A t \in Tasks :
            acquires'[t] > acquires[t] => retryAfterUntil[limiter[t]] = 0 ]_vars

\* C5: a check has released as often as acquire() has returned to it, but for
\* the one release due while its request is in flight.
C5_OneReleasePerAcquire ==
    \A t \in Tasks :
        /\ releases[t] <= acquires[t]
        /\ acquires[t] <= releases[t] + 1
        /\ pc[t] # "request" => releases[t] = acquires[t]

\* C6: a response whose status is not 429 ends the check: 404 is available,
\* 200 unavailable, anything else an http_error; the limiter was released
\* with rate_limited false, and no request follows.
Deciding == { "404", "200", "500" }

C6_FirstDecidingResponseEnds ==
    \A t \in Tasks :
        lastOutcome[t] \in Deciding =>
            /\ pc[t] = "done"
            /\ result[t] # None
            /\ result[t].domain = domains[t]
            /\ lastOutcome[t] = "404" =>
                   result[t].status = "available" /\ result[t].error_type = NoneTag
            /\ lastOutcome[t] = "200" =>
                   result[t].status = "unavailable" /\ result[t].error_type = NoneTag
            /\ lastOutcome[t] = "500" =>
                   result[t].status = "error" /\ result[t].error_type = "http_error"
            /\ lastRelease[t] = Some(FALSE)
            /\ releases[t] = acquires[t]
            /\ requests[t] = acquires[t]

\* A check that was rate limited, tried again, got a status that is neither
\* 404, 200 nor 429, and ended.
C6_Witness ==
    \E t \in Tasks :
        /\ lastOutcome[t] = "500"
        /\ requests[t] = 2
        /\ last_error_type[t] = "rate_limit"
        /\ pc[t] = "done"

\* C7: a check issues at most max_retries requests, and one that is after
\* its first request and not ended had a 429, a timeout or a network failure
\* as the outcome of its latest request.
Retryable == { "429", "timeout", "network" }

C7_BoundedRetries ==
    \A t \in Tasks :
        /\ requests[t] <= max_retries
        /\ ( \/ pc[t] = "request" /\ requests[t] >= 2
             \/ pc[t] \in { "acquire_semaphore", "acquire_lock", "sleep_retry_after",
                            "sleep_min_delay", "sleep_backoff" } /\ requests[t] >= 1 )
               => lastOutcome[t] \in Retryable

\* A check in its last allowed request after a timeout.
C7_Witness ==
    \E t \in Tasks :
        /\ pc[t] = "request"
        /\ requests[t] = max_retries /\ max_retries = MaxRetries
        /\ lastOutcome[t] = "timeout"

\* C8: a check of a domain whose TLD the bootstrap has no server for ends,
\* in its first step, unsupported, with no limiter, no acquire() and no request.
Unlisted == { << "a", ".", "z" >>, << "x" >> }

C8_UnsupportedWithoutTraffic ==
    \A t \in Tasks :
        (domains[t] \in Unlisted /\ pc[t] # "start") =>
            /\ pc[t] = "done"
            /\ result[t].status = "unsupported"
            /\ result[t].error_type = "tld_unsupported"
            /\ limiter[t] = None
            /\ acquires[t] = 0
            /\ requests[t] = 0
            /\ (\A u \in Tasks : domains[u] \in Unlisted) => registry = { }

\* A batch of a name without a dot and a name of an unlisted TLD, both ended.
C8_Witness ==
    /\ Len(domains) = 2
    /\ domains[1] = << "x" >> /\ domains[2] = << "a", ".", "z" >>
    /\ pc[1] = "done" /\ pc[2] = "done"

\* C9: under fair scheduling every check of the batch ends with a result
\* and check_domains returns.
C9_EveryCheckEnds ==
    <>( /\ batch = "returned"
        /\ \A t \in Tasks : result[t] # None /\ result[t].status \in Terminal )

\* Without a request that raises, the batch does return: under FairSpec the
\* run of C9 can fail only through a check that raised.
EndsUnlessRaised == <>(batch = "returned" \/ \E t \in Tasks : pc[t] = "raised")

\* C10: a check that ended in Error with its retries exhausted keeps nothing
\* another check waits for: it holds no slot and no lock, every slot missing
\* from a semaphore is held by a check that has not returned, a check waiting
\* for a lock waits for a check inside it, and no other check lost its place.
ExhaustedError(t) ==
    /\ pc[t] = "done"
    /\ result[t].status = "error"
    /\ result[t].error_type \in { "rate_limit", "timeout", "network" }

C10_ExhaustedCheckBlocksNobody ==
    \A t \in Tasks :
        ExhaustedError(t) =>
            /\ releases[t] = acquires[t]
            /\ \A h \in Hosts : lock[h] # t
            /\ \A h \in registry :
                   semaphore[h] + Cardinality(Holders(h)) = max_concurrent
            /\ \A u \in Tasks \ { t } :
                   /\ pc[u] = "acquire_lock" /\ ~LockFree(limiter[u]) =>
                          lock[limiter[u]] \in InLock(limiter[u]) \ { t }
                   /\ pc[u] = "acquire_semaphore" /\ ~SlotFree(limiter[u]) =>
                          Holders(limiter[u]) \ { t } # { }
                   /\ pc[u] = "done" => result[u] # None

\* A check has ended in Error after max_retries timeouts; the other check,
\* of the same host, ended after it with an answer of the registry.
C10_Witness ==
    \E t, u \in Tasks :
        /\ ExhaustedError(t)
        /\ requests[t] = max_retries /\ max_retries = MaxRetries
        /\ limiter[u] = limiter[t]
        /\ finished = << t, u >>
        /\ result[u].status = "available"

\* C11: no check ends by raising and check_domains never raises: every
\* failure of a request becomes the DomainResult of its domain.
C11_NoFailureRaises ==
    /\ batch # "raised"
    /\ \A t \in Tasks : pc[t] # "raised"

\* C12: a check whose last allowed attempt ended in a 429, a timeout or a
\* network failure has the result Error with the error type of that attempt,
\* the fixed message for timeout and rate_limit, the first 100 characters of
\* the exception text for network, and after a 429 the value its Retry-After
\* header parsed to.
Category(tag) == IF tag = "429" THEN "rate_limit" ELSE tag

C12_ExhaustedErrorIsLastFailure ==
    \A t \in Tasks :
        (pc[t] = "done" /\ requests[t] > 0 /\ lastOutcome[t] \in Retryable) =>
            LET r == result[t]
                text == last_error[t]
            IN /\ requests[t] = max_retries
               /\ r.domain = domains[t]
               /\ r.status = "error"
               /\ r.error_type = Category(lastOutcome[t])
               /\ lastOutcome[t] = "timeout" =>
                      r.error_message = << "Request timed out after retries" >>
               /\ lastOutcome[t] = "429" =>
                      /\ r.error_message = << "Rate limited, please retry later" >>
                      /\ r.retry_after = _parse_retry_after(lastHeader[t])
               /\ lastOutcome[t] = "network" =>
                      /\ Len(r.error_message) = Min(Len(text), MessageLimit)
                      /\ \A i \in 1 .. Len(r.error_message) : r.error_message[i] = text[i]

\* A check ended after max_retries attempts, the last one a network failure
\* whose text is longer than 100 characters.
C12_Witness ==
    \E t \in Tasks :
        /\ pc[t] = "done"
        /\ max_retries = MaxRetries /\ requests[t] = max_retries
        /\ lastOutcome[t] = "network"
        /\ Len(last_error[t]) > MessageLimit

\* C13: in every result, Available and Unavailable come without an error
\* type, Error with one of timeout, rate_limit, network, http_error, and
\* Unsupported with tld_unsupported.
ErrorTypes == { "timeout", "rate_limit", "network", "http_error" }

C13_ErrorTypeMatchesStatus ==
    \A t \in Tasks :
        result[t] # None =>
            /\ result[t].status \in Terminal
            /\ result[t].status \in { "available", "unavailable" } =>
                   result[t].error_type = NoneTag
            /\ result[t].status = "error" => result[t].error_type \in ErrorTypes
            /\ result[t].status = "unsupported" =>
                   result[t].error_type = "tld_unsupported"

\* C14: a release after a 429 is made with rate_limited true and raises the
\* host's count of consecutive rate limits by one, whether the 429 had a
\* Retry-After or not; every other release (after a 200, a 404, another
\* status, a timeout, a network failure) is made with rate_limited false and
\* sets the count to 0, whichever check of the host makes it.
C14_ReleaseCountsRateLimits ==
    [][ \A t \in Tasks :
            releases'[t] > releases[t] =>
                LET h == limiter[t]
                IN /\ lastRelease'[t] = Some(lastOutcome'[t] = "429")
                   /\ lastOutcome'[t] = "429" =>
                          consecutiveRateLimits'[h] = consecutiveRateLimits[h] + 1
                   /\ lastOutcome'[t] # "429" => consecutiveRateLimits'[h] = 0 ]_vars

\* A check sleeps after its 429 and the count of its host is 0 again: the
\* check of another domain on that host has completed since.
C14_Witness ==
    \E t, u \in Tasks :
        /\ t # u /\ limiter[t] = limiter[u] /\ domains[t] # domains[u]
        /\ pc[t] = "sleep_backoff" /\ lastOutcome[t] = "429"
        /\ lastOutcome[u] \in { "200", "404", "500", "timeout", "network" }
        /\ consecutiveRateLimits[limiter[t]] = 0

ServerHost(t) == get_rdap_server(ExtractTLD(domains[t])).netloc

C17_LimiterOutlivesCall ==
    [][ \A h \in registry :
            /\ h \in registry'
            /\ created'[h] = created[h]
            /\ calls' # calls =>
                   /\ retryAfterUntil'[h] = retryAfterUntil[h]
                   /\ consecutiveRateLimits'[h] = consecutiveRateLimits[h]
                   /\ lastRequestTime'[h] = lastRequestTime[h] ]_vars

\* A step that is a call of refresh_bootstrap.
RefreshStep == lastCall'.turn # lastCall.turn /\ lastCall'.name = "refresh_bootstrap"

Unexpired(f) == f.state = "valid" /\ f.expires > 0

\* C18: refresh_bootstrap(force=False) on a cache that has not expired makes
\* no request, returns false and leaves the file alone; with force it makes
\* exactly one request whatever the file is; without force it makes one when
\* the file is missing, unreadable or expired.
C18_FetchOnlyWhenDue ==
    [][ RefreshStep =>
            /\ (~lastCall'.force /\ Unexpired(file)) =>
                   /\ lastCall'.fetches = 0
                   /\ lastCall'.result = FALSE
                   /\ file' = file
            /\ lastCall'.force => lastCall'.fetches = 1
            /\ (~lastCall'.force /\ ~Unexpired(file)) => lastCall'.fetches = 1 ]_vars

\* An unforced refresh found the cache written by an earlier refresh still
\* valid and made no request.
C18_Witness ==
    /\ lastCall.name = "refresh_bootstrap"
    /\ ~lastCall.force
    /\ lastCall.fetches = 0
    /\ file.state = "valid" /\ file.validators = "small"

\* C19: when refresh_bootstrap returns true, the file holds the mapping
\* parsed from the response, with its validators.
C19_TrueMeansWritten ==
    [][ (RefreshStep /\ lastCall'.result) =>
            /\ file'.state = "valid"
            /\ file'.services = _parse_bootstrap_services(lastCall'.response.body.services)
            /\ file'.validators = lastCall'.response.body.validators ]_vars

\* C20: a refresh answered 304 returns false, leaves a file that has the
\* mapping the file had before, and an expiry that is not earlier than the
\* one before.
C20_NotModifiedKeepsMapping ==
    [][ ( /\ RefreshStep
          /\ lastCall'.fetches = 1
          /\ lastCall'.response.kind = "response"
          /\ lastCall'.response.status_code = 304 ) =>
            /\ lastCall'.result = FALSE
            /\ file'.state = file.state
            /\ file.state = "valid" =>
                   /\ file'.services = file.services
                   /\ file'.expires >= file.expires ]_vars

\* C21: a refresh whose request ends in a network failure, in a status that
\* is neither 200 nor 304, in a 200 whose body is no JSON, or in a 200 whose
\* document has no TLD entry, returns false and leaves the file as it was.
FailedFetch(response) ==
    \/ response.kind = "network"
    \/ /\ response.kind = "response"
       /\ \/ response.status_code \notin { 200, 304 }
          \/ /\ response.status_code = 200
             /\ \/ response.body.kind = "not_json"
                \/ /\ response.body.kind = "object"
                   /\ DOMAIN _parse_bootstrap_services(response.body.services) = { }

C21_FailedRefreshKeepsCache ==
    [][ (RefreshStep /\ lastCall'.fetches = 1 /\ FailedFetch(lastCall'.response)) =>
            /\ lastCall'.result = FALSE
            /\ ~lastCall'.raised
            /\ file' = file ]_vars

\* A forced refresh of a valid cache was answered 200 with a document that
\* has no entry.
C21_Witness ==
    /\ lastCall.name = "refresh_bootstrap"
    /\ lastCall.force /\ lastCall.fetches = 1
    /\ lastCall.response.kind = "response"
    /\ lastCall.response.status_code = 200
    /\ lastCall.response.body.kind = "object"
    /\ lastCall.response.body.services = EmptyDocument
    /\ Unexpired(file)

\* C22: after a 200 whose document has a TLD entry the file is the cache
\* made of that document alone: its keys are the lower-cased TLDs of the
\* document's entries, each with the URL list of the last entry naming it, its
\* validators are those of the response, and its expiry is ahead.
GoodDocument(response) ==
    /\ response.kind = "response"
    /\ response.status_code = 200
    /\ response.body.kind = "object"
    /\ DOMAIN _parse_bootstrap_services(response.body.services) # { }

IsCacheOf(f, response) ==
    /\ f.state = "valid"
    /\ f.services = _parse_bootstrap_services(response.body.services)
    /\ \A k \in DOMAIN f.services : k = LowerStr(k)
    /\ \A k \in DOMAIN f.services :
           \E i \in DOMAIN response.body.services :
               LET entry == response.body.services[i]
               IN /\ Len(entry) >= 2
                  /\ \E j \in DOMAIN entry[1] : LowerStr(entry[1][j]) = k
                  /\ f.services[k] = entry[2]
    /\ f.validators = response.body.validators
    /\ f.expires > 0

C22_NewDocumentReplacesCache ==
    [][ (RefreshStep /\ lastCall'.fetches = 1 /\ GoodDocument(lastCall'.response)) =>
            IsCacheOf(file', lastCall'.response) ]_vars

\* When the write succeeds the file is the cache of the new document.
ReplacedWhenWritten ==
    [][ ( /\ RefreshStep /\ lastCall'.fetches = 1
          /\ GoodDocument(lastCall'.response)
          /\ lastCall'.write = "written" ) =>
            IsCacheOf(file', lastCall'.response) ]_vars

\* A step that is a call of get_rdap_server.
LookupStep == lastCall'.turn # lastCall.turn /\ lastCall'.name = "get_rdap_server"

\* C23: a lookup that finds the cache expired and whose refresh fails (network
\* failure, a status other than 200, a body that is no JSON, has no entry or
\* has the wrong shape) raises nothing, leaves the file alone and answers
\* from the stale cache.
WrongShape(response) ==
    /\ response.kind = "response"
    /\ response.status_code = 200
    /\ response.body.kind = "not_object"

C23_StaleCacheAnswers ==
    [][ ( /\ LookupStep
          /\ file.state = "valid" /\ file.expires = 0
          /\ \/ FailedFetch(lastCall'.response)
             \/ WrongShape(lastCall'.response) ) =>
            /\ lastCall'.fetches = 1
            /\ ~lastCall'.raised
            /\ file' = file
            /\ lastCall'.answer = ServerOf(file.services, lastCall'.tld) ]_vars

\* The same for the failures that leave refresh_bootstrap by a return.
StaleCacheAnswersUnlessWrongShape ==
    [][ ( /\ LookupStep
          /\ file.state = "valid" /\ file.expires = 0
          /\ FailedFetch(lastCall'.response) ) =>
            /\ lastCall'.fetches = 1
            /\ ~lastCall'.raised
            /\ file' = file
            /\ lastCall'.answer = ServerOf(file.services, lastCall'.tld) ]_vars

\* C24: a call of get_rdap_server that follows a call which returned a
\* server for the same TLD, time having passed in between or not, returns a
\* server too, so that the check of a domain under that TLD is not Unsupported.
C24_ServedTldStaysSupported ==
    [][ ( /\ LookupStep
          /\ ~lastCall'.raised
          /\ lastCall.name = "get_rdap_server"
          /\ lastCall.answer # None
          /\ LowerStr(lastCall.tld) = LowerStr(lastCall'.tld) ) =>
            lastCall'.answer # None ]_vars

\* C25: what _load_cache returns while another process is writing the file
\* is the cache that was there when the write began or the cache being
\* written, and it is a cache if there was one when the write began.
ReadStep == lastCall'.turn # lastCall.turn /\ lastCall'.name = "_load_cache"

C25_ReaderSeesWholeCache ==
    [][ (ReadStep /\ pending # None) =>
            LET seen == lastCall'.answer
                old == _load_cache(pending.old)
            IN /\ old # None => seen # None
               /\ seen # None =>
                      \/ seen.services = pending.new.services
                      \/ old # None /\ seen.services = old.services ]_vars

\* C26: the RDAP tool response with onlyReportAvailable = false lists every
\* requested domain in exactly one of available, unavailable and errors, and
\* a domain whose result is Error or Unsupported under errors.
Occurrences(list, d) == Cardinality({ i \in 1 .. Len(list) : list[i] = d })

NoDuplicates(seq) == \A i, j \in 1 .. Len(seq) : seq[i] = seq[j] => i = j

RdapResponse == check_domains(_check_domains_rdap_async(returned), TRUE, FALSE)

ListedRight(r) ==
    LET d == r.domain
        response == RdapResponse
    IN /\ Occurrences(response.available, d) + Occurrences(response.unavailable, d)
            + Occurrences(response.errors, d) = 1
       /\ r.status \in { "error", "unsupported" } =>
              /\ Occurrences(response.errors, d) = 1
              /\ Occurrences(response.unavailable, d) = 0

C26_ErrorsListedAsErrors ==
    (batch = "returned" /\ NoDuplicates(domains)) =>
        \A i \in 1 .. Len(returned) : ListedRight(returned[i])

\* What does hold: a result is listed right unless it is an Error whose
\* message is None or empty.
ListedRightUnlessMessageEmpty ==
    (batch = "returned" /\ NoDuplicates(domains)) =>
        \A i \in 1 .. Len(returned) :
            (returned[i].status = "error" /\ ~Truthy(returned[i].error_message))
                \/ ListedRight(returned[i])

\* C27: get_rdap_server(tld) returns the first URL the cache lists for the
\* lower-cased tld, None when the cache has no entry or an empty list for it,
\* and is_tld_supported(tld) returns whether that is a URL.
FirstUrl(f, tld_lower) ==
    IF f.state # "valid" THEN None
    ELSE IF tld_lower \notin DOMAIN f.services THEN None
    ELSE IF f.services[tld_lower] = << >> THEN None
    ELSE Head(f.services[tld_lower])

SupportedStep == lastCall'.turn # lastCall.turn /\ lastCall'.name = "is_tld_supported"

C27_LookupReturnsFirstUrl ==
    [][ /\ LookupStep =>
              /\ ~lastCall'.raised
              /\ lastCall'.answer = FirstUrl(file', LowerStr(lastCall'.tld))
        /\ SupportedStep =>
              /\ ~lastCall'.raised
              /\ lastCall'.supported = (FirstUrl(file', LowerStr(lastCall'.tld)) # None) ]_vars

\* What does hold: a lookup that returns, returns that.
LookupReturnsFirstUrlUnlessRaised ==
    [][ /\ (LookupStep /\ ~lastCall'.raised) =>
              lastCall'.answer = FirstUrl(file', LowerStr(lastCall'.tld))
        /\ (SupportedStep /\ ~lastCall'.raised) =>
              lastCall'.supported = (FirstUrl(file', LowerStr(lastCall'.tld)) # None) ]_vars

\* C28: _parse_retry_after returns None for a missing, empty or unparseable
\* header, the number for a header holding a number, the time to the date
\* floored at 0 for a date, and never a number below 0.
ParseStep == lastCall'.turn # lastCall.turn /\ lastCall'.name = "_parse_retry_after"

ParsedAsRead(header, answer) ==
    IF header = None THEN answer = None
    ELSE IF header.kind \in { "empty", "blank", "garbage" } THEN answer = None
    ELSE IF header.kind \in { "number", "padded" } THEN answer = Some(header.value)
    ELSE answer = Some(Max(0, header.value))

C28_RetryAfterNoneOrNonNegative ==
    [][ ParseStep =>
            /\ ParsedAsRead(lastCall'.header, lastCall'.answer)
            /\ lastCall'.answer = None \/ Value(lastCall'.answer) >= 0 ]_vars

\* What does hold: the header is read as claimed; a number below zero is
\* returned as it is.
RetryAfterAsRead ==
    [][ ParseStep => ParsedAsRead(lastCall'.header, lastCall'.answer) ]_vars

\* C29: a check goes from Start to Unsupported or Querying, from Querying to
\* Available, Unavailable, Error or Querying again; a check that has its
\* result calls acquire() and sends a request no more, and a new attempt
\* begins only after a retryable failure with attempts remaining.
Querying == { "acquire_semaphore", "acquire_lock", "sleep_retry_after",
              "sleep_min_delay", "request", "sleep_backoff" }

Ended(t, statuses) == pc'[t] = "done" /\ result'[t].status \in statuses

\* The result stays and no acquire() or request follows it.
StaysEnded(t) ==
    pc[t] = "done" =>
        /\ pc'[t] = "done" /\ result'[t] = result[t]
        /\ acquires'[t] = acquires[t] /\ requests'[t] = requests[t]

\* A further attempt begins.
Reenters(t) == pc[t] \in Querying /\ attempt'[t] # attempt[t]

ReentersAfterRetryable(t) ==
    Reenters(t) =>
        /\ lastOutcome[t] \in Retryable
        /\ attempt'[t] = attempt[t] + 1 /\ attempt'[t] < max_retries
        /\ pc'[t] = "acquire_semaphore"

C29_CheckStateMachine ==
    [][ \A t \in Tasks :
          /\ (pc[t] = "start" /\ pc'[t] # "start") =>
                 Ended(t, { "unsupported" }) \/ pc'[t] \in Querying
          /\ (pc[t] \in Querying /\ pc'[t] \notin Querying) =>
                 Ended(t, { "available", "unavailable", "error" })
          /\ StaysEnded(t)
          /\ ReentersAfterRetryable(t) ]_vars

\* What does hold: a result is final, and a further attempt follows a
\* retryable failure with attempts remaining.
ResultIsFinal ==
    [][ \A t \in Tasks : StaysEnded(t) /\ ReentersAfterRetryable(t) ]_vars

\* What does hold as well: the transitions are the claimed ones, the step
\* from Start to Error of max_retries = 0 and the raised exception apart.
StateMachineUnlessNoAttemptOrRaised ==
    [][ \A t \in Tasks :
          /\ (pc[t] = "start" /\ pc'[t] # "start" /\ max_retries > 0) =>
                 Ended(t, { "unsupported" }) \/ pc'[t] \in Querying
          /\ (pc[t] \in Querying /\ pc'[t] \notin Querying /\ pc'[t] # "raised") =>
                 Ended(t, { "available", "unavailable", "error" }) ]_vars

\* C30: after attempt k of a check has failed with attempts remaining, the
\* check sleeps for the Retry-After of the 429 if it is known, 0 included,
\* and for 0.5 * k seconds otherwise; after the last attempt it does not sleep.
Answered(t) == pc[t] = "request" /\ pc'[t] # "request"

KnownRetryAfter(t) ==
    lastOutcome'[t] = "429" /\ _parse_retry_after(lastHeader'[t]) # None

ClaimedSleep(t) ==
    IF KnownRetryAfter(t) THEN Value(_parse_retry_after(lastHeader'[t]))
    ELSE ((attempt[t] + 1) * TicksPerSecond) \div 2

SleepsBetweenAttempts(t) ==
    (Answered(t) /\ lastOutcome'[t] \in Retryable) =>
        IF attempt[t] + 1 < max_retries
        THEN pc'[t] = "sleep_backoff" /\ timer'[t] = ClaimedSleep(t)
        ELSE pc'[t] = "done"

C30_SleepBetweenAttempts ==
    [][ \A t \in Tasks : SleepsBetweenAttempts(t) ]_vars

\* What does hold: the sleep is the claimed one unless the Retry-After is 0.
SleepsAsClaimedUnlessZero ==
    [][ \A t \in Tasks :
          (KnownRetryAfter(t) /\ Value(_parse_retry_after(lastHeader'[t])) = 0)
              \/ SleepsBetweenAttempts(t) ]_vars

\* C31 (as stated): a check alone on its host that was answered 429 with a
\* Retry-After above the minimum delay, and has slept it, waits again for the
\* limiter's retryAfterUntil inside its next acquire().
AfterLongRetryAfter(t) ==
    /\ attempt[t] >= 1
    /\ lastOutcome[t] = "429"
    /\ _parse_retry_after(lastHeader[t]) # None
    /\ Value(_parse_retry_after(lastHeader[t])) > MinDelay

EntersAcquire(t) == pc[t] = "acquire_semaphore" /\ pc'[t] # "acquire_semaphore"

Moved(t) ==
    \/ pc'[t] # pc[t]
    \/ acquires'[t] # acquires[t]
    \/ releases'[t] # releases[t]

OtherHostsUntouched ==
    \A t \in Tasks : \A b \in Hosts :
        (Moved(t) /\ limiter'[t] # b) =>
            /\ lastRequestTime'[b] = lastRequestTime[b]
            /\ retryAfterUntil'[b] = retryAfterUntil[b]
            /\ consecutiveRateLimits'[b] = consecutiveRateLimits[b]
            /\ semaphore'[b] = semaphore[b]
            /\ lock'[b] = lock[b]

GrantedOnOwnHostAlone ==
    \A t \in Tasks :
        /\ (pc[t] = "acquire_semaphore" /\ semaphore[limiter[t]] > 0) =>
               ENABLED AcquireSemaphore(t)
        /\ (pc[t] = "acquire_lock" /\ lock[limiter[t]] = 0) =>
               ENABLED AcquireLock(t)

C32_HostsIndependent == [][OtherHostsUntouched]_vars /\ []GrantedOnOwnHostAlone

\* One check is granted on its host while the check on another host sleeps
\* in acquire() for that host's retryAfterUntil.
C32_Witness ==
    \E t, u \in Tasks :
        /\ pc[t] = "sleep_retry_after" /\ timer[t] > 0
        /\ limiter[u] # None /\ limiter[u] # limiter[t]
        /\ pc[u] = "request" /\ requests[u] = 1
        /\ requests[t] >= 1

\* C33: after a 200 with a document or a 304 over a cache, the stored expiry
\* is the max-age of the response, 0 included, and the default of a day only
\* when the response has no max-age that is an integer.
FirstMaxAge(cache_control) ==
    LET given == { i \in 1 .. Len(cache_control) :
                     /\ cache_control[i].name = "max-age"
                     /\ cache_control[i].value # None }
    IN IF given = { } THEN None
       ELSE cache_control[CHOOSE i \in given : \A j \in given : i <= j].value

Stores(response, f) ==
    /\ response.kind = "response"
    /\ \/ GoodDocument(response)
       \/ response.status_code = 304 /\ f.state = "valid"

ExpiryAsGiven(response, f) ==
    /\ f.state = "valid"
    /\ LET max_age == FirstMaxAge(response.cache_control)
       IN IF max_age # None THEN f.expires = Value(max_age)
          ELSE f.expires = DEFAULT_CACHE_TTL

C33_ExpiryFromMaxAge ==
    [][ (RefreshStep /\ lastCall'.fetches = 1 /\ Stores(lastCall'.response, file)) =>
            ExpiryAsGiven(lastCall'.response, file') ]_vars

\* What does hold: the expiry is the claimed one when the max-age is not 0
\* and the file was written.
ExpiryFromMaxAgeUnlessZero ==
    [][ ( /\ RefreshStep /\ lastCall'.fetches = 1
          /\ Stores(lastCall'.response, file)
          /\ lastCall'.write = "written"
          /\ FirstMaxAge(lastCall'.response.cache_control) # Some(0) ) =>
            ExpiryAsGiven(lastCall'.response, file') ]_vars

\* C34: a release(rate_limited=True) never sets a host's retryAfterUntil to
\* an earlier time than the one pending.
RateLimitedRelease(h) == consecutiveRateLimits'[h] = consecutiveRateLimits[h] + 1

C34_RetryAfterUntilNeverEarlier ==
    [][ \A h \in Hosts :
          RateLimitedRelease(h) => retryAfterUntil'[h] >= retryAfterUntil[h] ]_vars

\* What does hold: the release sets retryAfterUntil to what this 429 gave,
\* whatever was pending.
RetryAfterUntilOverwritten ==
    [][ \A t \in Tasks :
          ( /\ Answered(t) /\ lastOutcome'[t] = "429"
            /\ _parse_retry_after(lastHeader'[t]) # None ) =>
              retryAfterUntil'[limiter[t]] = Value(_parse_retry_after(lastHeader'[t])) ]_vars

\* C35: a release(rate_limited=False) sets consecutiveRateLimits to 0, frees
\* one slot and leaves retryAfterUntil and lastRequestTime as they were.
CleanRelease(t) == releases'[t] = releases[t] + 1 /\ lastRelease'[t] = Some(FALSE)

C35_CleanReleaseKeepsWait ==
    [][ \A t \in Tasks :
          CleanRelease(t) =>
              LET h == limiter[t]
              IN /\ consecutiveRateLimits'[h] = 0
                 /\ semaphore'[h] = semaphore[h] + 1
                 /\ retryAfterUntil'[h] = retryAfterUntil[h]
                 /\ lastRequestTime'[h] = lastRequestTime[h]
                 /\ \A g \in Hosts \ { h } :
                        /\ consecutiveRateLimits'[g] = consecutiveRateLimits[g]
                        /\ semaphore'[g] = semaphore[g] ]_vars

\* A clean response has been released while the wait of an earlier 429 on
\* the host is still pending.
C35_Witness ==
    \E t \in Tasks :
        /\ pc[t] = "done" /\ lastOutcome[t] \in { "200", "404" }
        /\ lastRelease[t] = Some(FALSE)
        /\ consecutiveRateLimits[limiter[t]] = 0
        /\ retryAfterUntil[limiter[t]] > 0

\* C36: on one and the same cache, is_tld_supported(t) is true exactly when
\* the lower-cased t is in get_supported_tlds(), a TLD with an empty server
\* list included.
ListedAfterSupported ==
    /\ lastCall.name = "is_tld_supported" /\ ~lastCall.raised
    /\ lastCall'.turn # lastCall.turn /\ lastCall'.name = "get_supported_tlds"
    /\ lastCall'.fetches = 0 /\ file' = file

C36_SupportedIffListed ==
    [][ ListedAfterSupported =>
            (lastCall.supported <=> LowerStr(lastCall.tld) \in lastCall'.answer) ]_vars

\* What does hold: the two agree for every TLD whose server list is not empty.
SupportedIffListedUnlessEmptyList ==
    [][ ListedAfterSupported =>
            \/ /\ LowerStr(lastCall.tld) \in DOMAIN file.services
               /\ file.services[LowerStr(lastCall.tld)] = << >>
            \/ (lastCall.supported <=> LowerStr(lastCall.tld) \in lastCall'.answer) ]_vars

\* C37: a final Error result has a retry_after only when its error type is
\* rate_limit.
C37_RetryAfterOnlyWithRateLimit ==
    \A t \in Tasks :
        (pc[t] = "done" /\ result[t].status = "error" /\ result[t].retry_after # None)
            => result[t].error_type = "rate_limit"

\* What does hold: the retry_after of a final Error is that of the last 429
\* the check was answered, whatever failure came after it.
RetryAfterOfLast429 ==
    \A t \in Tasks :
        (pc[t] = "done" /\ result[t].status = "error"
           /\ result[t].error_type \in { "rate_limit", "timeout", "network" })
            => result[t].retry_after = last_retry_after[t]

\* C38: during the checks of one batch the bootstrap document is fetched at
\* most once.
C38_OneFetchPerBatch == fetched <= 1

\* What does hold: a check fetches the document only when it finds no cache
\* or an expired one, so there is at most one fetch for each domain.
FetchOnlyWhenStale ==
    [][ /\ fetched' <= fetched + 1
        /\ Unexpired(file) => fetched' = fetched ]_vars

AtMostOneFetchPerDomain == fetched <= Len(domains)

\* C39: while no check is between acquire() and release() on a host, every
\* slot of the host's limiter is free; and a check that waits in acquire()
\* is granted in the end.
BetweenAcquireAndRelease ==
    { "acquire_lock", "sleep_retry_after", "sleep_min_delay", "request" }

SlotsConserved ==
    \A h \in registry :
        (\A t \in Tasks : limiter[t] = h => pc[t] \notin BetweenAcquireAndRelease)
            => semaphore[h] = max_concurrent

WaitsInAcquire(t) == t \in Tasks /\ pc[t] \in { "acquire_semaphore", "acquire_lock" }

C39_SlotsConservedNoStarvation ==
    /\ []SlotsConserved
    /\ \A t \in 1 .. MaxDomains : WaitsInAcquire(t) ~> ~WaitsInAcquire(t)

\* What does hold: both, as long as no request has raised an exception that
\* is no HTTPError.
NoneRaised == \A t \in Tasks : pc[t] # "raised"

SlotsConservedUnlessRaised == NoneRaised => SlotsConserved

NoStarvationUnlessRaised ==
    \A t \in 1 .. MaxDomains : WaitsInAcquire(t) ~> (~WaitsInAcquire(t) \/ ~NoneRaised)

====
